---- MODULE Spec2Model ----
(***************************************************************************)
(* Model of execute_orders.py: the order diff engine (calculate_orders),   *)
(* the order executor (execute_order) and the orchestrator (main).         *)
(*                                                                         *)
(* Numbers are fixed-point integers.  Dollar amounts are counted in units  *)
(* of 1/CentUnits cent, share quantities in units of 1/MilliShareUnits     *)
(* thousandth of a share, so that round(x, 2) and round(x, 3) are real     *)
(* roundings (down, up and ties) and not the identity.  Python's round()   *)
(* rounds half to even; so does RoundTo.                                   *)
(***************************************************************************)
EXTENDS Integers, Sequences, FiniteSets, TLC

VARIABLES
    pc,                 \* position of main
    exit_code,          \* process exit status: 0, or 1 after sys.exit(1)
    allocation_data,    \* the loaded allocation file
    dry_run,            \* order_config['dry_run']
    min_order_size,     \* order_config['min_order_size']
    broker_positions,   \* positions held at the broker (raw symbols)
    broker_open,        \* ids of the orders open at the broker now
    open_at_start,      \* ids of the orders open at the broker when the run started
    list_failed,        \* client.get_orders raised
    pending_orders,     \* the order ids client.get_orders returned
    cancel_idx,         \* position of the cancel loop in pending_orders
    cancel_called,      \* ids for which client.cancel_order_by_id was called
    cancel_failed,      \* ids for which client.cancel_order_by_id raised
    account_equity,
    current_positions,
    positions_failed,   \* client.get_all_positions raised
    target_positions,
    orders,             \* the list calculate_orders returned
    sorted_orders,
    exec_idx,           \* position of the execution loop in sorted_orders
    executed,           \* the instructions passed to execute_order, in order
    exec_results,       \* what execute_order returned for each of them
    submitted,          \* the requests passed to client.submit_order, in order
    success_count

vars == <<pc, exit_code, allocation_data, dry_run, min_order_size, broker_positions,
          broker_open, open_at_start, list_failed, pending_orders, cancel_idx,
          cancel_called, cancel_failed, account_equity, current_positions, positions_failed,
          target_positions, orders, sorted_orders, exec_idx, executed, exec_results, submitted,
          success_count>>

(***************************************************************************)
(* Number grid and bounds                                                  *)
(***************************************************************************)
CentUnits == 4          \* value units per 0.01 dollar: round(x, 2) rounds to a multiple of it
MilliShareUnits == 4    \* quantity units per 0.001 share: round(x, 3) rounds to a multiple of it

MaxValue == 4           \* largest market value / target value fed to calculate_orders
MaxQty == 5             \* largest quantity fed to calculate_orders
MaxMinOrder == 2        \* largest min_order_size fed to calculate_orders
MaxOpen == 2            \* most orders open at the broker when main starts
MaxPct == 2             \* largest allocation percentage in the allocation file
MaxEquitySteps == 2     \* largest account equity, in steps of PercentBase units

PercentBase == 100      \* allocation_pct / 100.0
DEFAULT_min_order_size == 4000  \* DEFAULT_ORDER_CONFIG['min_order_size'] = 10.0 dollars

Abs(x) == IF x < 0 THEN 0 - x ELSE x

Min2(a, b) == IF a <= b THEN a ELSE b

\* round(num / den, digits) on the grid, for den > 0: the multiple of step
\* nearest to num / den, a tie going to the even multiple.
RoundTo(num, den, step) ==
    LET D == den * step
        q == num \div D
        r == num % D
    IN  IF 2 * r < D THEN q * step
        ELSE IF 2 * r > D THEN (q + 1) * step
        ELSE IF q % 2 = 0 THEN q * step
        ELSE (q + 1) * step

round3(num, den) == RoundTo(num, den, MilliShareUnits)

round2(num, den) == RoundTo(num, den, CentUnits)

(***************************************************************************)
(* calculate_orders                                                        *)
(***************************************************************************)
NoPosition == [value |-> 0, qty |-> 0]

position_data(symbol, current) ==
    IF symbol \in DOMAIN current THEN current[symbol] ELSE NoPosition

target_value_of(symbol, target) ==
    IF symbol \in DOMAIN target THEN target[symbol] ELSE 0

\* mutant: the test current_value > 0 is forgotten
should_close_position_any_value(symbol_in_target, target_value, current_value) ==
    ~symbol_in_target \/ target_value = 0

should_close_position(symbol_in_target, target_value, current_value) ==
    (~symbol_in_target \/ target_value = 0) /\ current_value > 0

\* mutant: abs() is forgotten, only small buys are filtered
dead_band_buys_only(difference, min_size) == 0 <= difference /\ difference < min_size

dead_band(difference, min_size) == Abs(difference) < min_size

\* mutant: the notional is not rounded
buy_notional_unrounded(difference) == difference

buy_notional(difference) == round2(difference, 1)

\* lines 230-251: the buy branch, as the list of instructions it appends
buy_branch(symbol, difference, current_value, current_qty) ==
    LET buy_qty == round3(difference * current_qty, current_value)
    IN  IF current_qty > 0 /\ current_value > 0 /\ buy_qty > 0
        THEN << [symbol |-> symbol, side |-> "buy", qty |-> buy_qty] >>
        ELSE << [symbol |-> symbol, side |-> "buy", notional |-> buy_notional(difference)] >>

\* lines 254-274: the quantity to sell
sell_quantity(symbol_in_target, target_value, current_value, current_qty) ==
    IF ~symbol_in_target THEN round3(current_qty, 1)
    ELSE IF target_value = 0 THEN round3(current_qty, 1)
    ELSE IF current_value > 0
         THEN Min2(round3(current_qty * (current_value - target_value), current_value),
                   current_qty)
         ELSE 0

\* lines 252-283: the sell branch
sell_branch(symbol, symbol_in_target, target_value, current_value, current_qty) ==
    LET sell_qty == sell_quantity(symbol_in_target, target_value, current_value, current_qty)
    IN  IF sell_qty > 0
        THEN << [symbol |-> symbol, side |-> "sell", qty |-> sell_qty,
                 current_position_value |-> current_value] >>
        ELSE << >>

\* lines 210-283: one iteration of the loop over all_symbols
symbol_orders(symbol, current, target, min_size) ==
    LET current_value == position_data(symbol, current).value
        current_qty == position_data(symbol, current).qty
        symbol_in_target == symbol \in DOMAIN target
        target_value == target_value_of(symbol, target)
        difference == target_value - current_value
        should_close == should_close_position(symbol_in_target, target_value, current_value)
    IN  IF ~should_close /\ dead_band(difference, min_size) THEN << >>
        ELSE IF difference > 0
             THEN buy_branch(symbol, difference, current_value, current_qty)
             ELSE sell_branch(symbol, symbol_in_target, target_value,
                              current_value, current_qty)

all_symbols(current, target) == DOMAIN current \cup DOMAIN target

RECURSIVE orders_loop(_, _, _, _)
orders_loop(iteration, current, target, min_size) ==
    IF iteration = << >> THEN << >>
    ELSE symbol_orders(Head(iteration), current, target, min_size)
         \o orders_loop(Tail(iteration), current, target, min_size)

\* The orders of a set in which Python may iterate over it.
IterationOrders(S) ==
    { s \in [1..Cardinality(S) -> S] : \A i, j \in 1..Cardinality(S) : i # j => s[i] # s[j] }

\* calculate_orders, for one iteration order of the set all_symbols
calculate_orders(current, target, min_size, iteration) ==
    orders_loop(iteration, current, target, min_size)

(***************************************************************************)
(* Inputs of the diff engine                                               *)
(***************************************************************************)
CalcSymbols == {"AAPL", "SOL/USD"}

PositionRecords == [value : 0..MaxValue, qty : 0..MaxQty]

PositionMaps(S) == UNION { [T -> PositionRecords] : T \in SUBSET S }

TargetMaps(S) == UNION { [T -> 0..MaxValue] : T \in SUBSET S }

(***************************************************************************)
(* main, lines 476-482: the call of calculate_orders                       *)
(***************************************************************************)
CalculateOrders ==
    /\ pc = "calculate_orders"
    /\ \E iteration \in IterationOrders(all_symbols(current_positions, target_positions)) :
          orders' = calculate_orders(current_positions, target_positions,
                                     min_order_size, iteration)
    /\ pc' = IF orders' = << >> THEN "return_no_orders" ELSE "sort_orders"
    /\ UNCHANGED <<exit_code, allocation_data, dry_run, min_order_size, broker_positions,
                   broker_open, open_at_start, list_failed, pending_orders, cancel_idx,
                   cancel_called, cancel_failed, account_equity, current_positions, positions_failed,
                   target_positions, sorted_orders, exec_idx, executed, exec_results, submitted,
                   success_count>>

\* The diff engine on its own: every input of the bounded domain, then the call.
InitCalc ==
    /\ pc = "calculate_orders"
    /\ exit_code = 0
    /\ allocation_data = [allocations |-> << >>]
    /\ dry_run = FALSE
    /\ min_order_size \in 0..MaxMinOrder
    /\ broker_positions = << >>
    /\ broker_open = {}
    /\ open_at_start = {}
    /\ list_failed = FALSE
    /\ pending_orders = << >>
    /\ cancel_idx = 1
    /\ cancel_called = {}
    /\ cancel_failed = {}
    /\ account_equity = 0
    /\ current_positions \in PositionMaps(CalcSymbols)
    /\ positions_failed = FALSE
    /\ target_positions \in TargetMaps(CalcSymbols)
    /\ orders = << >>
    /\ sorted_orders = << >>
    /\ exec_idx = 1
    /\ executed = << >>
    /\ exec_results = << >>
    /\ submitted = << >>
    /\ success_count = 0

NextCalc == CalculateOrders

SpecCalc == InitCalc /\ [][NextCalc]_vars

Calculated == pc \in {"return_no_orders", "sort_orders", "execute", "return_dry_run", "done"}

(***************************************************************************)
(* Module-level tables and the helpers of main                             *)
(***************************************************************************)
CRYPTO_TICKER_MAPPING == [a \in {"BTC-USD", "SOL-USD"} |->
                             IF a = "BTC-USD" THEN "BTC/USD" ELSE "SOL/USD"]

CRYPTO_SYMBOLS == {"BTC/USD", "BTCUSD", "BTC-USD", "SOL/USD", "SOLUSD", "SOL-USD"}

SYMBOL_NORMALIZATION == [a \in {"BTCUSD", "BTC-USD", "SOLUSD", "SOL-USD"} |->
                            IF a \in {"BTCUSD", "BTC-USD"} THEN "BTC/USD" ELSE "SOL/USD"]

\* The symbols of the model are upper case already, so symbol.upper() is symbol.
normalize_symbol(symbol) ==
    IF symbol \in DOMAIN SYMBOL_NORMALIZATION THEN SYMBOL_NORMALIZATION[symbol] ELSE symbol

\* '/' in symbol, for the symbols of the model
HasSlash(symbol) == symbol \in {"BTC/USD", "SOL/USD"}

is_crypto(symbol) == HasSlash(symbol) \/ symbol \in CRYPTO_SYMBOLS

is_market_open(clock) == IF clock = "error" THEN TRUE ELSE clock = "open"

RECURSIVE SumOver(_, _, _)
SumOver(S, f, field) ==
    IF S = {} THEN 0
    ELSE LET x == CHOOSE y \in S : TRUE
         IN  f[x][field] + SumOver(S \ {x}, f, field)

\* get_current_positions when client.get_all_positions() returns the positions
get_current_positions(positions) ==
    LET normalized == { normalize_symbol(raw) : raw \in DOMAIN positions }
        same(n) == { raw \in DOMAIN positions : normalize_symbol(raw) = n }
    IN  [n \in normalized |-> [value |-> SumOver(same(n), positions, "value"),
                               qty |-> SumOver(same(n), positions, "qty")]]

mapped_symbol(asset, crypto_mapping) ==
    IF asset \in DOMAIN crypto_mapping THEN crypto_mapping[asset] ELSE asset

\* (allocation_pct / 100.0) * account_equity; the equities of the model are
\* multiples of PercentBase, so the quotient is exact.
calculate_target_positions(allocations, equity, crypto_mapping) ==
    LET symbols == { mapped_symbol(a, crypto_mapping) : a \in DOMAIN allocations }
        asset_of(sym) == CHOOSE a \in DOMAIN allocations : mapped_symbol(a, crypto_mapping) = sym
    IN  [sym \in symbols |-> (allocations[asset_of(sym)] * equity) \div PercentBase]

Lower(text) == IF text = "TRUE" THEN "true" ELSE IF text = "Yes" THEN "yes" ELSE text

\* lines 407-408: env is the value of DRY_RUN, "" when it is not set
parse_dry_run(env) == IF env = "" THEN FALSE ELSE Lower(env) \in {"true", "1", "yes"}

\* lines 409-410: env is << >> when MIN_ORDER_SIZE is not set, << n >> when it is n
parse_min_order_size(env) == IF env = << >> THEN DEFAULT_min_order_size ELSE env[1]

sell_orders(list) == SelectSeq(list, LAMBDA o : o.side = "sell")

buy_orders(list) == SelectSeq(list, LAMBDA o : o.side = "buy")

\* mutant: the list is executed in the order calculate_orders returned it
sort_orders_unsorted(list) == list

\* lines 501-503
sort_orders(list) == sell_orders(list) \o buy_orders(list)

\* mutant: the dry_run flag is not consulted
after_sort_ignoring_dry_run(dry) == "execute"

\* lines 511-515
after_sort(dry) == IF dry THEN "return_dry_run" ELSE "execute"

time_in_force(symbol) == IF is_crypto(symbol) THEN "gtc" ELSE "day"

order_qty(order_data) == IF "qty" \in DOMAIN order_data THEN order_data.qty ELSE 0

order_notional(order_data) ==
    IF "notional" \in DOMAIN order_data THEN order_data.notional ELSE 0

\* execute_order up to the call of client.submit_order: the request it builds,
\* or << >> when it returns False before submitting (invalid quantity).
order_request(order_data) ==
    IF order_data.side = "sell"
    THEN IF order_qty(order_data) <= 0 THEN << >>
         ELSE [symbol |-> order_data.symbol, side |-> "sell", qty |-> order_qty(order_data),
               time_in_force |-> time_in_force(order_data.symbol)]
    ELSE IF order_qty(order_data) > 0
         THEN [symbol |-> order_data.symbol, side |-> "buy",
               qty |-> round3(order_qty(order_data), 1),
               time_in_force |-> time_in_force(order_data.symbol)]
         ELSE IF round2(order_notional(order_data), 1) <= 0 THEN << >>
              ELSE [symbol |-> order_data.symbol, side |-> "buy",
                    notional |-> round2(order_notional(order_data), 1),
                    time_in_force |-> time_in_force(order_data.symbol)]

\* what execute_order returns when client.submit_order ends with outcome
execute_order(order_data, outcome) == order_request(order_data) # << >> /\ outcome = "ok"

count_success(count, ok) == IF ok THEN count + 1 ELSE count

\* mutant: the error of client.get_all_positions is not caught and ends the run
after_positions_abort(failed) == IF failed THEN "exit" ELSE "calculate_targets"

\* lines 147-149 and 465: main goes on after a position query that raised
after_positions(failed) == "calculate_targets"

\* mutant: the listed orders are not canceled
after_list_skip_cancel(pending) == "get_equity"

\* lines 442-452: the cancel loop runs when the listing is not empty
after_list(pending) == IF pending = << >> THEN "get_equity" ELSE "cancel_orders"

\* mutant: the first cancel that raises ends the cancel loop
after_cancel_abort(ok, idx, n) == IF ~ok \/ idx = n THEN "get_equity" ELSE "cancel_orders"

\* lines 444-449: the cancel loop goes on after a cancel that raised
after_cancel(ok, idx, n) == IF idx = n THEN "get_equity" ELSE "cancel_orders"

\* mutant: a submission that fails ends the run
after_execute_abort(ok, idx, n) == IF ~ok THEN "exit" ELSE IF idx = n THEN "done" ELSE "execute"

\* lines 517-519: the execution loop goes on after a submission that failed
after_execute(ok, idx, n) == IF idx = n THEN "done" ELSE "execute"

RECURSIVE Ascending(_)
Ascending(S) ==
    IF S = {} THEN << >>
    ELSE LET m == CHOOSE x \in S : \A y \in S : x <= y
         IN  << m >> \o Ascending(S \ {m})

(***************************************************************************)
(* The world main runs in                                                  *)
(***************************************************************************)
RawSymbols == {"AAPL", "SOLUSD", "SOL/USD"}

Tickers == {"MSFT", "SOL-USD"}

BrokerPositionRecords == {[value |-> 1, qty |-> 3]}

BrokerPositionMaps == UNION { [T -> BrokerPositionRecords] : T \in SUBSET RawSymbols }

AllocationFiles ==
    { [allocations |-> a] : a \in UNION { [T -> 0..MaxPct] : T \in SUBSET Tickers } }
    \cup { [data_as_of_date |-> "unknown"] }

Equities == { PercentBase * k : k \in 0..MaxEquitySteps }

DryRunEnv == {"", "true", "TRUE", "1", "yes", "false", "0"}

MinOrderEnv == { << >>, << 0 >>, << MaxMinOrder >> }

SubmitOutcomes == {"ok", "api_error", "error"}

(***************************************************************************)
(* main                                                                    *)
(***************************************************************************)
Init ==
    /\ pc = "load_allocation"
    /\ exit_code = 0
    /\ allocation_data = << >>
    /\ dry_run = FALSE
    /\ min_order_size = DEFAULT_min_order_size
    /\ broker_positions \in BrokerPositionMaps
    /\ \E n \in 0..MaxOpen : broker_open = 1..n
    /\ open_at_start = broker_open
    /\ list_failed = FALSE
    /\ pending_orders = << >>
    /\ cancel_idx = 1
    /\ cancel_called = {}
    /\ cancel_failed = {}
    /\ account_equity = 0
    /\ current_positions = << >>
    /\ positions_failed = FALSE
    /\ target_positions = << >>
    /\ orders = << >>
    /\ sorted_orders = << >>
    /\ exec_idx = 1
    /\ executed = << >>
    /\ exec_results = << >>
    /\ submitted = << >>
    /\ success_count = 0

\* lines 397-401
LoadAllocationFile ==
    /\ pc = "load_allocation"
    /\ \/ /\ pc' = "exit"
          /\ exit_code' = 1
          /\ UNCHANGED allocation_data
       \/ /\ allocation_data' \in AllocationFiles
          /\ pc' = "load_config"
          /\ UNCHANGED exit_code
    /\ UNCHANGED <<dry_run, min_order_size, broker_positions, broker_open, open_at_start,
                   list_failed, pending_orders, cancel_idx, cancel_called, cancel_failed,
                   account_equity, current_positions, positions_failed, target_positions, orders,
                   sorted_orders, exec_idx, executed, exec_results, submitted,
                   success_count>>

\* lines 404-414
LoadOrderConfig ==
    /\ pc = "load_config"
    /\ \E env_dry \in DryRunEnv, env_min \in MinOrderEnv :
          /\ dry_run' = parse_dry_run(env_dry)
          /\ min_order_size' = parse_min_order_size(env_min)
    /\ pc' = "validate_allocation"
    /\ UNCHANGED <<exit_code, allocation_data, broker_positions, broker_open, open_at_start,
                   list_failed, pending_orders, cancel_idx, cancel_called, cancel_failed,
                   account_equity, current_positions, positions_failed, target_positions, orders,
                   sorted_orders, exec_idx, executed, exec_results, submitted,
                   success_count>>

\* lines 417-424
ValidateAllocation ==
    /\ pc = "validate_allocation"
    /\ IF "allocations" \notin DOMAIN allocation_data
       THEN pc' = "exit" /\ exit_code' = 1
       ELSE pc' = "connect" /\ UNCHANGED exit_code
    /\ UNCHANGED <<allocation_data, dry_run, min_order_size, broker_positions, broker_open,
                   open_at_start, list_failed, pending_orders, cancel_idx, cancel_called,
                   cancel_failed, account_equity, current_positions, positions_failed, target_positions,
                   orders, sorted_orders, exec_idx, executed, exec_results, submitted,
                   success_count>>

\* lines 427-432
Connect ==
    /\ pc = "connect"
    /\ \/ pc' = "exit" /\ exit_code' = 1
       \/ pc' = "check_market" /\ UNCHANGED exit_code
    /\ UNCHANGED <<allocation_data, dry_run, min_order_size, broker_positions, broker_open,
                   open_at_start, list_failed, pending_orders, cancel_idx, cancel_called,
                   cancel_failed, account_equity, current_positions, positions_failed, target_positions,
                   orders, sorted_orders, exec_idx, executed, exec_results, submitted,
                   success_count>>

\* lines 435-436: the answer only changes what is logged
CheckMarket ==
    /\ pc = "check_market"
    /\ \E clock \in {"open", "closed", "error"} : is_market_open(clock) \in BOOLEAN
    /\ pc' = "list_orders"
    /\ UNCHANGED <<exit_code, allocation_data, dry_run, min_order_size, broker_positions,
                   broker_open, open_at_start, list_failed, pending_orders, cancel_idx,
                   cancel_called, cancel_failed, account_equity, current_positions, positions_failed,
                   target_positions, orders, sorted_orders, exec_idx, executed,
                   exec_results, submitted, success_count>>

\* lines 439-443 and 451-454
ListOpenOrders ==
    /\ pc = "list_orders"
    /\ \/ /\ list_failed' = TRUE
          /\ pc' = "get_equity"
          /\ UNCHANGED pending_orders
       \/ /\ pending_orders' = Ascending(broker_open)
          /\ pc' = after_list(pending_orders')
          /\ UNCHANGED list_failed
    /\ UNCHANGED <<exit_code, allocation_data, dry_run, min_order_size, broker_positions,
                   broker_open, open_at_start, cancel_idx, cancel_called, cancel_failed,
                   account_equity, current_positions, positions_failed, target_positions, orders,
                   sorted_orders, exec_idx, executed, exec_results, submitted,
                   success_count>>

\* lines 444-450: one iteration of the cancel loop
CancelNext ==
    /\ pc = "cancel_orders"
    /\ cancel_idx <= Len(pending_orders)
    /\ cancel_called' = cancel_called \cup {pending_orders[cancel_idx]}
    /\ \E ok \in BOOLEAN :
          /\ IF ok
             THEN /\ broker_open' = broker_open \ {pending_orders[cancel_idx]}
                  /\ UNCHANGED cancel_failed
             ELSE /\ cancel_failed' = cancel_failed \cup {pending_orders[cancel_idx]}
                  /\ UNCHANGED broker_open
          /\ pc' = after_cancel(ok, cancel_idx, Len(pending_orders))
    /\ cancel_idx' = cancel_idx + 1
    /\ UNCHANGED <<exit_code, allocation_data, dry_run, min_order_size, broker_positions,
                   open_at_start, list_failed, pending_orders, account_equity,
                   current_positions, positions_failed, target_positions, orders, sorted_orders, exec_idx,
                   executed, exec_results, submitted, success_count>>

\* lines 457-462
GetAccountEquity ==
    /\ pc = "get_equity"
    /\ \/ /\ pc' = "exit"
          /\ exit_code' = 1
          /\ UNCHANGED account_equity
       \/ /\ account_equity' \in Equities
          /\ pc' = "get_positions"
          /\ UNCHANGED exit_code
    /\ UNCHANGED <<allocation_data, dry_run, min_order_size, broker_positions, broker_open,
                   open_at_start, list_failed, pending_orders, cancel_idx, cancel_called,
                   cancel_failed, current_positions, positions_failed, target_positions, orders,
                   sorted_orders, exec_idx, executed, exec_results, submitted,
                   success_count>>

\* lines 465-470, with get_current_positions (lines 130-149)
GetCurrentPositions ==
    /\ pc = "get_positions"
    /\ \E failed \in BOOLEAN :
          /\ positions_failed' = failed
          /\ current_positions' = IF failed THEN << >>
                                   ELSE get_current_positions(broker_positions)
          /\ pc' = after_positions(failed)
    /\ UNCHANGED <<exit_code, allocation_data, dry_run, min_order_size, broker_positions,
                   broker_open, open_at_start, list_failed, pending_orders, cancel_idx,
                   cancel_called, cancel_failed, account_equity, target_positions, orders,
                   sorted_orders, exec_idx, executed, exec_results, submitted,
                   success_count>>

\* lines 473-474
CalculateTargets ==
    /\ pc = "calculate_targets"
    /\ target_positions' = calculate_target_positions(allocation_data.allocations,
                                                      account_equity, CRYPTO_TICKER_MAPPING)
    /\ pc' = "calculate_orders"
    /\ UNCHANGED <<exit_code, allocation_data, dry_run, min_order_size, broker_positions,
                   broker_open, open_at_start, list_failed, pending_orders, cancel_idx,
                   cancel_called, cancel_failed, account_equity, current_positions, positions_failed, orders,
                   sorted_orders, exec_idx, executed, exec_results, submitted,
                   success_count>>

\* lines 484-515
SortOrders ==
    /\ pc = "sort_orders"
    /\ sorted_orders' = sort_orders(orders)
    /\ pc' = after_sort(dry_run)
    /\ UNCHANGED <<exit_code, allocation_data, dry_run, min_order_size, broker_positions,
                   broker_open, open_at_start, list_failed, pending_orders, cancel_idx,
                   cancel_called, cancel_failed, account_equity, current_positions, positions_failed,
                   target_positions, orders, exec_idx, executed, exec_results, submitted,
                   success_count>>

\* lines 517-522: one iteration of the execution loop, with execute_order
\* (lines 288-387); after the last one main logs the summary and returns
ExecuteNext ==
    /\ pc = "execute"
    /\ exec_idx <= Len(sorted_orders)
    /\ \E outcome \in SubmitOutcomes :
          LET order_data == sorted_orders[exec_idx]
              request == order_request(order_data)
              ok == execute_order(order_data, outcome)
          IN  /\ request = << >> => outcome = "ok"   \* nothing is submitted: one case
              /\ executed' = Append(executed, order_data)
              /\ submitted' = IF request = << >> THEN submitted ELSE Append(submitted, request)
              /\ exec_results' = Append(exec_results, ok)
              /\ success_count' = count_success(success_count, ok)
              /\ pc' = after_execute(ok, exec_idx, Len(sorted_orders))
    /\ exec_idx' = exec_idx + 1
    /\ UNCHANGED <<exit_code, allocation_data, dry_run, min_order_size, broker_positions,
                   broker_open, open_at_start, list_failed, pending_orders, cancel_idx,
                   cancel_called, cancel_failed, account_equity, current_positions, positions_failed,
                   target_positions, orders, sorted_orders>>

Next ==
    \/ LoadAllocationFile
    \/ LoadOrderConfig
    \/ ValidateAllocation
    \/ Connect
    \/ CheckMarket
    \/ ListOpenOrders
    \/ CancelNext
    \/ GetAccountEquity
    \/ GetCurrentPositions
    \/ CalculateTargets
    \/ CalculateOrders
    \/ SortOrders
    \/ ExecuteNext

Spec == Init /\ [][Next]_vars

(***************************************************************************)
(* Vocabulary of the properties of calculate_orders                        *)
(***************************************************************************)
HeldValue(s) == IF s \in DOMAIN current_positions THEN current_positions[s].value ELSE 0

HeldQty(s) == IF s \in DOMAIN current_positions THEN current_positions[s].qty ELSE 0

Targeted(s) == s \in DOMAIN target_positions

TargetValue(s) == IF Targeted(s) THEN target_positions[s] ELSE 0

InputSymbols == DOMAIN current_positions \cup DOMAIN target_positions

InstructionsFor(s) == SelectSeq(orders, LAMBDA o : o.symbol = s)

FullCloseCase(s) == HeldValue(s) > 0 /\ (~Targeted(s) \/ TargetValue(s) = 0)

DeadBandCase(s) == Abs(TargetValue(s) - HeldValue(s)) < min_order_size /\ ~FullCloseCase(s)

FreshEntryCase(s) == TargetValue(s) > 0 /\ HeldValue(s) = 0 /\ HeldQty(s) = 0

NotionalBuy(s) == [symbol |-> s, side |-> "buy", notional |-> round2(TargetValue(s), 1)]

Contains(seq, x) == \E i \in 1..Len(seq) : seq[i] = x

PositionsMatchTargets ==
    /\ \A s \in DOMAIN target_positions : HeldValue(s) = target_positions[s]
    /\ \A s \in DOMAIN current_positions \ DOMAIN target_positions :
          HeldValue(s) = 0 /\ HeldQty(s) = 0

\* C1: every symbol held with positive value that is absent from the targets or
\* has target 0 gets exactly one instruction, a sell of round(current_qty, 3).
C1_FullClose ==
    Calculated =>
        \A s \in InputSymbols :
            FullCloseCase(s) =>
                /\ Len(InstructionsFor(s)) = 1
                /\ InstructionsFor(s)[1].side = "sell"
                /\ InstructionsFor(s)[1].qty = round3(HeldQty(s), 1)

\* C4: a symbol whose difference is inside the dead band and that is not a
\* full-close case gets no instruction.
C4_DeadBand ==
    Calculated =>
        \A s \in InputSymbols : DeadBandCase(s) => InstructionsFor(s) = << >>

C4_Witness ==
    /\ Calculated
    /\ \E s, t \in InputSymbols :
          /\ DeadBandCase(s)
          /\ TargetValue(s) # HeldValue(s)
          /\ HeldQty(s) > 0
          /\ InstructionsFor(s) = << >>
          /\ InstructionsFor(t) # << >>

\* C5: no sell instruction carries more than the quantity held.
C5_NoOversell ==
    Calculated =>
        \A i \in 1..Len(orders) :
            orders[i].side = "sell" => orders[i].qty <= HeldQty(orders[i].symbol)

\* C6: every quantity carried is a multiple of 0.001 share and every notional
\* carried is a multiple of 0.01 dollar.
C6_Rounding ==
    Calculated =>
        \A i \in 1..Len(orders) :
            /\ "qty" \in DOMAIN orders[i] => orders[i].qty % MilliShareUnits = 0
            /\ "notional" \in DOMAIN orders[i] => orders[i].notional % CentUnits = 0

\* C9 as stated: a symbol with positive target and nothing held gets a buy
\* carrying notional round(target_value, 2) and no qty, for every min_order_size.
C9_FreshEntry ==
    Calculated =>
        \A s \in InputSymbols : FreshEntryCase(s) => Contains(orders, NotionalBuy(s))

\* C9 amended: a symbol with positive target of at least min_order_size and
\* nothing held gets exactly one instruction, a buy carrying notional
\* round(target_value, 2) and no qty.
C9_FreshEntryAboveMin ==
    Calculated =>
        \A s \in InputSymbols :
            (FreshEntryCase(s) /\ TargetValue(s) >= min_order_size) =>
                InstructionsFor(s) = << NotionalBuy(s) >>

C9_Witness ==
    /\ Calculated
    /\ min_order_size > 0
    /\ \E s \in InputSymbols :
          /\ FreshEntryCase(s)
          /\ TargetValue(s) >= min_order_size
          /\ TargetValue(s) % CentUnits # 0
          /\ InstructionsFor(s) = << NotionalBuy(s) >>

\* C10 as stated: when the positions match the targets exactly, calculate_orders
\* returns the empty list, for every min_order_size >= 0.
C10_Idempotence ==
    (Calculated /\ PositionsMatchTargets) => orders = << >>

\* C10 amended: when the positions match the targets exactly, calculate_orders
\* returns the empty list for every min_order_size > 0, and for min_order_size = 0
\* when no symbol with target 0 is held with a quantity that rounds to more than 0.
C10_IdempotenceNoZeroValueHolding ==
    (/\ Calculated
     /\ PositionsMatchTargets
     /\ \/ min_order_size > 0
        \/ \A s \in DOMAIN target_positions :
              target_positions[s] = 0 => round3(HeldQty(s), 1) <= 0)
    => orders = << >>

C10_Witness ==
    /\ Calculated
    /\ PositionsMatchTargets
    /\ min_order_size = 0
    /\ \E s \in DOMAIN target_positions : target_positions[s] > 0 /\ HeldQty(s) > 0
    /\ \E s \in DOMAIN target_positions : target_positions[s] = 0 /\ HeldQty(s) > 0
    /\ orders = << >>

(***************************************************************************)
(* Properties of main                                                      *)
(***************************************************************************)
\* C2: no buy instruction is passed to execute_order before every sell
\* instruction that calculate_orders returned has been passed to it.
C2_SellsBeforeBuys ==
    \A i \in 1..Len(executed) :
        executed[i].side = "buy" =>
            \A j \in 1..Len(orders) :
                orders[j].side = "sell" => \E k \in 1..(i - 1) : executed[k] = orders[j]

C2_Witness ==
    /\ pc = "done"
    /\ Len(sell_orders(orders)) >= 2
    /\ Len(buy_orders(orders)) >= 1
    /\ orders[1].side = "buy"
    /\ exec_results[1] = FALSE
    /\ Len(executed) = Len(orders)

AtCalculateOrSubmit == pc = "calculate_orders" \/ submitted # << >>

\* C3 as stated: when calculate_orders is called and when a new order is
\* submitted, no order that was open at the start of the run is still open.
C3_CancelFirst ==
    AtCalculateOrSubmit => open_at_start \cap broker_open = {}

\* C3 amended: when calculate_orders is called and when a new order is submitted,
\* if listing the open orders succeeded then a cancel has been requested for every
\* order open at the start and only those whose cancel raised are still open; if
\* the listing raised, no cancel has been requested and all of them are still open.
C3_CancelFirstUnlessError ==
    AtCalculateOrSubmit =>
        IF list_failed
        THEN cancel_called = {} /\ broker_open = open_at_start
        ELSE cancel_called = open_at_start /\ broker_open = cancel_failed

C3_Witness ==
    /\ submitted # << >>
    /\ ~list_failed
    /\ Cardinality(open_at_start) >= 2
    /\ cancel_failed = {1}
    /\ broker_open = {1}
    /\ cancel_called = open_at_start

\* C7: with dry_run true no instruction is passed to execute_order, nothing is
\* submitted to the broker, and main never enters the execution loop.
C7_DryRun ==
    dry_run => (executed = << >> /\ submitted = << >> /\ pc \notin {"execute", "done"})

C7_Witness ==
    /\ dry_run
    /\ pc = "return_dry_run"
    /\ Len(orders) >= 2
    /\ sorted_orders = sort_orders(orders)
    /\ submitted = << >>

\* C8: in a run that executes, a failed submission neither stops the loop nor
\* ends the process abnormally; at the end every instruction that calculate_orders
\* returned has been passed to execute_order exactly once and success_count is
\* the number of calls that returned success.
C8_FailureIsolation ==
    /\ executed # << >> => (pc \in {"execute", "done"} /\ exit_code = 0)
    /\ pc = "execute" =>
          (exec_idx <= Len(sorted_orders) /\ executed = SubSeq(sorted_orders, 1, exec_idx - 1))
    /\ pc = "done" =>
          /\ Len(executed) = Len(orders)
          /\ \A j \in 1..Len(orders) :
                Cardinality({ k \in 1..Len(executed) : executed[k] = orders[j] }) = 1
          /\ success_count = Cardinality({ k \in 1..Len(exec_results) : exec_results[k] })
          /\ exit_code = 0

C8_Witness ==
    /\ pc = "done"
    /\ Len(orders) = 3
    /\ exec_results = << FALSE, TRUE, FALSE >>
    /\ Len(submitted) = 2
    /\ success_count = 1

(***************************************************************************)
(* Properties of main when a query fails, and of the dry run               *)
(***************************************************************************)
NotionalRequest(s) ==
    [symbol |-> s, side |-> "buy", notional |-> round2(TargetValue(s), 1),
     time_in_force |-> time_in_force(s)]

\* the target symbols the diff engine buys when nothing is held
BuyableTargets ==
    { s \in DOMAIN target_positions : TargetValue(s) > 0 /\ TargetValue(s) >= min_order_size }

TimesSubmitted(request) ==
    Cardinality({ i \in 1..Len(submitted) : submitted[i] = request })

\* C11 as stated: after a position query that raised, a run that executes submits
\* a notional buy of the full target value for every target symbol whose
\* target_value is positive and at least min_order_size, and submits no sell.
C11_PositionFailureBuysAllTargets ==
    (positions_failed /\ pc = "done") =>
        /\ \A s \in BuyableTargets : TimesSubmitted(NotionalRequest(s)) >= 1
        /\ \A i \in 1..Len(submitted) : submitted[i].side = "buy"

\* C11 amended: a position query that raised leaves current_positions empty and
\* does not end the run; calculate_orders then returns exactly one notional buy of
\* round(target_value, 2) for every target symbol whose target_value is positive
\* and at least min_order_size, and no sell; a run that executes submits exactly
\* those whose round(target_value, 2) is positive, once each, and nothing else.
C11_PositionFailureBuysRoundedTargets ==
    positions_failed =>
        /\ current_positions = << >>
        /\ pc # "exit" /\ exit_code = 0
        /\ Calculated =>
              /\ Len(orders) = Cardinality(BuyableTargets)
              /\ \A s \in BuyableTargets : Contains(orders, NotionalBuy(s))
        /\ pc = "done" =>
              /\ \A s \in BuyableTargets :
                    TimesSubmitted(NotionalRequest(s)) =
                        IF round2(TargetValue(s), 1) > 0 THEN 1 ELSE 0
              /\ \A i \in 1..Len(submitted) :
                    submitted[i].side = "buy" /\ submitted[i].symbol \in BuyableTargets

C11_Witness ==
    /\ positions_failed
    /\ pc = "done"
    /\ "SOLUSD" \in DOMAIN broker_positions
    /\ "AAPL" \in DOMAIN broker_positions
    /\ min_order_size > 0
    /\ BuyableTargets = {"MSFT", "SOL/USD"}
    /\ TimesSubmitted(NotionalRequest("SOL/USD")) = 1
    /\ TimesSubmitted(NotionalRequest("MSFT")) = 1
    /\ Len(submitted) = 2

PendingIds == { pending_orders[i] : i \in 1..Len(pending_orders) }

\* C12: by the time the dry_run flag is consulted the open orders have been
\* listed and a cancel has been called for each listed order, whatever dry_run
\* is; a dry run therefore leaves open only the orders whose cancel raised.
C12_DryRunStillCancels ==
    pc \in {"sort_orders", "return_dry_run", "execute", "done"} =>
        /\ list_failed \/ PendingIds = open_at_start
        /\ cancel_called = PendingIds
        /\ (dry_run /\ ~list_failed) => broker_open = cancel_failed

C12_Witness ==
    /\ dry_run
    /\ pc = "return_dry_run"
    /\ Cardinality(open_at_start) >= 2
    /\ cancel_called = open_at_start
    /\ broker_open = {}
    /\ submitted = << >>

====
